---- MODULE Spec2Model ----
(***************************************************************************)
(* A model of the Creature core of the evolution simulator                 *)
(* (src/wasm/src/creature/mod.rs).                                         *)
(*                                                                         *)
(* Numbers.  Positions are points with integer coordinates.  speed is kept *)
(* in tenths (10 stands for 1.0) and energy in two-hundredths (20000       *)
(* stands for 100.0), so that 0.5 * speed^2 is the integer speed * speed   *)
(* and every subtraction is exact.  An Option is a sequence of length 0    *)
(* (None) or 1 (Some).                                                     *)
(***************************************************************************)
EXTENDS Integers, Sequences, FiniteSets, TLC

VARIABLES
  creature,   \* the Creature value the operations act on
  returned,   \* the last call made on it and the value that call returned
  offered,    \* the stimuli given to add_objective since the last reset
  observed    \* apply_energy_cost has seen energy <= 0 on this creature

vars == <<creature, returned, offered, observed>>

-----------------------------------------------------------------------------
(* Bounds of the model *)

\* longest movement_history the full specification explores
MaxHist == 2
\* most stimuli offered between two resets
MaxOffered == 2
\* most foods a creature eats
MaxFoods == 2
\* moves of a walk whose destination is chosen freely; the later moves of
\* the walk go back and forth between its last two positions
MaxTurns == 2
\* moves of the longest walk
MaxWalk == 203

\* positions the environment supplies
Points == {<<0, 0>>, <<1, 0>>, <<0, 2>>}

\* stimuli the environment offers in the full specification
Stimuli == {<<<<1, 0>>, "MinorAversion">>, <<<<0, 0>>, "VitalCraving">>}

\* costs the environment hands to apply_energy_cost: 99.5
Costs == {19900}

\* the lowest energy the model follows a creature to (-100.0)
EnergyFloor == 0 - 20000

\* speeds a lineage may drift to (0.9 .. 1.1)
Speeds == {9, 10, 11}

\* perturbations the entropy source may yield, in multiples of the rate
Noise == {0 - 1, 0, 1}

-----------------------------------------------------------------------------
(* Option, vectors *)

None == <<>>

Some(x) == <<x>>

Sub(a, b) == <<a[1] - b[1], a[2] - b[2]>>

Scale(k, v) == <<k * v[1], k * v[2]>>

\* the squared Euclidean norm; norm(v) = 0 exactly when this is 0
norm_squared(v) == v[1] * v[1] + v[2] * v[2]

Abs(n) == IF n < 0 THEN 0 - n ELSE n

RECURSIVE Gcd(_, _)
Gcd(a, b) == IF b = 0 THEN a ELSE Gcd(b, a % b)

\* a value of Unit<Vector2<f64>>: its two components, or NaN in both
UnitVector(x, y) == [nan |-> FALSE, x |-> x, y |-> y]

\* what dividing 0.0 by 0.0 leaves in both components
NaNVector == [nan |-> TRUE, x |-> 0, y |-> 0]

\* Vector2::x()
XAxis == <<1, 0>>

\* Unit::new_normalize: the vector divided by its norm.  A unit vector with
\* an integer direction is written as the primitive integer vector of that
\* direction: two vectors have the same normalisation iff they have the same
\* primitive vector.  The zero vector divides 0.0 by 0.0.
new_normalize(v) ==
  IF norm_squared(v) = 0
    THEN NaNVector
    ELSE LET g == Gcd(Abs(v[1]), Abs(v[2]))
         IN  UnitVector(v[1] \div g, v[2] \div g)

-----------------------------------------------------------------------------
(* ObjectiveIntensity *)

\* the variants in declaration order; the derived PartialOrd compares
\* positions in this order
ObjectiveIntensity ==
  << "MinorCraving", "MinorAversion",
     "ModerateCraving", "ModerateAversion",
     "MajorCraving", "MajorAversion",
     "VitalCraving", "VitalAversion" >>

Intensities == {ObjectiveIntensity[k] : k \in 1..Len(ObjectiveIntensity)}

discriminant(i) == CHOOSE k \in 1..Len(ObjectiveIntensity) : ObjectiveIntensity[k] = i

\* a > b of the derived PartialOrd
gt(a, b) == discriminant(a) > discriminant(b)

-----------------------------------------------------------------------------
(* Creature *)

new(pos) ==
  [ state            |-> "ACTIVE",
    speed            |-> <<10, 1>>,
    sense_range      |-> 50,
    reach            |-> 5,
    life_span        |-> 4,
    foods_eaten      |-> 0,
    energy           |-> 20000,
    age              |-> 0,
    pos              |-> pos,
    home_pos         |-> pos,
    movement_history |-> <<pos>>,
    target           |-> None ]

\* Mutatable::get_mutated: the value perturbed by noise scaled by the rate,
\* the rate copied unchanged
get_mutated(m, rng) == <<m[1] + rng * m[2], m[2]>>

\* will_reproduce satisfied by a single food
will_reproduce_one(self) == self.foods_eaten >= 1

will_reproduce(self) == self.foods_eaten > 1

reproduce(self, rng) ==
  IF will_reproduce(self)
    THEN <<[new(self.home_pos) EXCEPT !.speed = get_mutated(self.speed, rng)]>>
    ELSE <<>>

\* grow_older that ends the lineage one step early (>= for >)
grow_older_early(self) ==
  IF self.age >= self.life_span
    THEN None
    ELSE Some([new(self.home_pos) EXCEPT
                 !.speed       = self.speed,
                 !.sense_range = self.sense_range,
                 !.reach       = self.reach,
                 !.life_span   = self.life_span,
                 !.age         = self.age + 1])

\* grow_older that leaves speed out of the fields it carries over
grow_older_default_speed(self) ==
  IF self.age > self.life_span
    THEN None
    ELSE Some([new(self.home_pos) EXCEPT
                 !.sense_range = self.sense_range,
                 !.reach       = self.reach,
                 !.life_span   = self.life_span,
                 !.age         = self.age + 1])

\* grow_older that copies the age as it is
grow_older_ageless(self) ==
  IF self.age > self.life_span
    THEN None
    ELSE Some([new(self.home_pos) EXCEPT
                 !.speed       = self.speed,
                 !.sense_range = self.sense_range,
                 !.reach       = self.reach,
                 !.life_span   = self.life_span,
                 !.age         = self.age])

grow_older(self) ==
  IF self.age > self.life_span
    THEN None
    ELSE Some([new(self.home_pos) EXCEPT
                 !.speed       = self.speed,
                 !.sense_range = self.sense_range,
                 !.reach       = self.reach,
                 !.life_span   = self.life_span,
                 !.age         = self.age + 1])

get_speed(self) == self.speed[1]

is_alive(self) == IF self.state = "DEAD" THEN FALSE ELSE TRUE

is_active(self) == IF self.state = "ACTIVE" THEN TRUE ELSE FALSE

\* 0.5 * speed^2, in two-hundredths
get_motion_energy_cost(self) == get_speed(self) * get_speed(self)

\* apply_energy_cost that lets a creature live at energy 0 (< for <=)
apply_energy_cost_strict(self, cost) ==
  LET e == self.energy - cost
  IN  IF e < 0
        THEN [self EXCEPT !.energy = e, !.state = "DEAD"]
        ELSE [self EXCEPT !.energy = e]

\* apply_energy_cost that sets the state from the energy either way
apply_energy_cost_reviving(self, cost) ==
  LET e == self.energy - cost
  IN  IF e <= 0
        THEN [self EXCEPT !.energy = e, !.state = "DEAD"]
        ELSE [self EXCEPT !.energy = e, !.state = "ACTIVE"]

apply_energy_cost(self, cost) ==
  LET e == self.energy - cost
  IN  IF e <= 0
        THEN [self EXCEPT !.energy = e, !.state = "DEAD"]
        ELSE [self EXCEPT !.energy = e]

\* move_to that forgets to record the move
move_to_unrecorded(self, pos) ==
  LET moved == [self EXCEPT !.pos = pos]
  IN  apply_energy_cost(moved, get_motion_energy_cost(moved))

\* move_to that records the move at the front of the history
move_to_prepending(self, pos) ==
  LET moved == [self EXCEPT !.pos = pos,
                            !.movement_history = <<pos>> \o @]
  IN  apply_energy_cost(moved, get_motion_energy_cost(moved))

\* move_to that only an Active creature carries out
move_to_if_active(self, pos) ==
  IF self.state = "ACTIVE"
    THEN LET moved == [self EXCEPT !.pos = pos,
                                   !.movement_history = Append(@, pos)]
         IN  apply_energy_cost(moved, get_motion_energy_cost(moved))
    ELSE self

move_to(self, pos) ==
  LET moved == [self EXCEPT !.pos = pos,
                            !.movement_history = Append(@, pos)]
  IN  apply_energy_cost(moved, get_motion_energy_cost(moved))

\* get_last_position reading the last entry, not the one before it
get_last_position_newest(self) ==
  LET len == Len(self.movement_history)
  IN  IF len <= 1 THEN None ELSE Some(self.movement_history[len])

\* movement_history[len - 2] counts from 0; sequences here count from 1
get_last_position(self) ==
  LET len == Len(self.movement_history)
  IN  IF len <= 1 THEN None ELSE Some(self.movement_history[len - 1])

IsAversion(intensity) ==
  intensity \in {"MinorAversion", "ModerateAversion", "MajorAversion", "VitalAversion"}

\* the closure mapped over the target: the displacement to it, turned round
\* for an aversion
target_displacement(self, t) ==
  LET d == Sub(t[1], self.pos)
  IN  IF IsAversion(t[2]) THEN Scale(0 - 1, d) ELSE d

\* the vector get_direction hands to Unit::new_normalize
disp(self) ==
  LET mapped   == IF self.target = None
                    THEN None
                    ELSE Some(target_displacement(self, self.target[1]))
      filtered == IF mapped # None /\ norm_squared(mapped[1]) # 0
                    THEN mapped
                    ELSE None
  IN  IF filtered # None
        THEN filtered[1]
        ELSE LET last == get_last_position(self)
             IN  IF last # None THEN Sub(self.pos, last[1]) ELSE XAxis

get_direction(self) == new_normalize(disp(self))

\* add_objective with the comparison turned round
add_objective_lt(self, targetPos, intensity) ==
  IF (IF self.target = None THEN TRUE ELSE gt(self.target[1][2], intensity))
    THEN [self EXCEPT !.target = Some(<<targetPos, intensity>>)]
    ELSE self

\* add_objective without the comparison
add_objective_always(self, targetPos, intensity) ==
  [self EXCEPT !.target = Some(<<targetPos, intensity>>)]

\* add_objective with >= for >
add_objective_ge(self, targetPos, intensity) ==
  IF (IF self.target = None THEN TRUE ELSE ~gt(self.target[1][2], intensity))
    THEN [self EXCEPT !.target = Some(<<targetPos, intensity>>)]
    ELSE self

add_objective(self, targetPos, intensity) ==
  IF (IF self.target = None THEN TRUE ELSE gt(intensity, self.target[1][2]))
    THEN [self EXCEPT !.target = Some(<<targetPos, intensity>>)]
    ELSE self

reset_objective(self) == [self EXCEPT !.target = None]

\* eat_food that also feeds the creature: 50.0 of energy
eat_food_restoring(self) ==
  [self EXCEPT !.foods_eaten = @ + 1, !.energy = @ + 10000]

eat_food(self) == [self EXCEPT !.foods_eaten = @ + 1]

\* sleep that leaves a Dead creature Dead
sleep_unless_dead(self) ==
  IF self.state = "DEAD" THEN self ELSE [self EXCEPT !.state = "ASLEEP"]

sleep(self) == [self EXCEPT !.state = "ASLEEP"]

\* (pt - pos).norm() <= sense_range, compared as squares
can_see(self, pt) == norm_squared(Sub(pt, self.pos)) <= self.sense_range * self.sense_range

\* can_reach that leaves the boundary out (< for <=)
can_reach_strict(self, pt) == norm_squared(Sub(pt, self.pos)) < self.reach * self.reach

\* (pt - pos).norm() <= reach, compared as squares
can_reach(self, pt) == norm_squared(Sub(pt, self.pos)) <= self.reach * self.reach

-----------------------------------------------------------------------------
(* The calls the environment makes *)

Call(op, args, value) == [op |-> op, args |-> args, value |-> value]

Init ==
  /\ \E p \in Points : creature = new(p)
  /\ returned = Call("new", <<creature.pos>>, <<>>)
  /\ offered = <<>>
  /\ observed = FALSE

MoveTo(pos) ==
  /\ creature' = move_to(creature, pos)
  /\ creature'.energy >= EnergyFloor
  /\ returned' = Call("move_to", <<pos>>, <<>>)
  /\ observed' = (observed \/ creature'.energy <= 0)
  /\ UNCHANGED offered

ApplyEnergyCost(cost) ==
  /\ creature' = apply_energy_cost(creature, cost)
  /\ creature'.energy >= EnergyFloor
  /\ returned' = Call("apply_energy_cost", <<cost>>, <<>>)
  /\ observed' = (observed \/ creature'.energy <= 0)
  /\ UNCHANGED offered

AddObjective(targetPos, intensity) ==
  /\ Len(offered) < MaxOffered
  /\ creature' = add_objective(creature, targetPos, intensity)
  /\ returned' = Call("add_objective", <<targetPos, intensity>>, <<>>)
  /\ offered' = Append(offered, <<targetPos, intensity>>)
  /\ UNCHANGED observed

ResetObjective ==
  /\ creature' = reset_objective(creature)
  /\ returned' = Call("reset_objective", <<>>, <<>>)
  /\ offered' = <<>>
  /\ UNCHANGED observed

EatFood ==
  /\ creature.foods_eaten < MaxFoods
  /\ creature' = eat_food(creature)
  /\ returned' = Call("eat_food", <<>>, <<>>)
  /\ UNCHANGED <<offered, observed>>

Sleep ==
  /\ creature' = sleep(creature)
  /\ returned' = Call("sleep", <<>>, <<>>)
  /\ UNCHANGED <<offered, observed>>

\* reproduce that takes the parent's foods with it
Reproduce_consuming(rng) ==
  /\ get_mutated(creature.speed, rng)[1] \in Speeds
  /\ returned' = Call("reproduce", <<rng>>, reproduce(creature, rng))
  /\ creature' = [creature EXCEPT !.foods_eaten = 0]
  /\ UNCHANGED <<offered, observed>>

\* reproduce borrows self immutably: the parent stays as it is
Reproduce(rng) ==
  /\ get_mutated(creature.speed, rng)[1] \in Speeds
  /\ returned' = Call("reproduce", <<rng>>, reproduce(creature, rng))
  /\ UNCHANGED <<creature, offered, observed>>

GrowOlder ==
  /\ returned' = Call("grow_older", <<>>, grow_older(creature))
  /\ UNCHANGED <<creature, offered, observed>>

\* the owner of the population puts the creature a call returned in the
\* place of the one it was called on
Replace ==
  /\ returned.op \in {"reproduce", "grow_older"}
  /\ Len(returned.value) = 1
  /\ creature' = returned.value[1]
  /\ returned' = Call("new", <<creature'.pos>>, <<>>)
  /\ offered' = <<>>
  /\ observed' = FALSE

\* a move that keeps movement_history within the bound
BoundedMoveTo(pos) ==
  /\ Len(creature.movement_history) < MaxHist
  /\ MoveTo(pos)

\* every operation, on every creature of a lineage
Next ==
  \/ \E p \in Points : BoundedMoveTo(p)
  \/ \E c \in Costs : ApplyEnergyCost(c)
  \/ EatFood
  \/ Sleep
  \/ \E s \in Stimuli : AddObjective(s[1], s[2])
  \/ ResetObjective
  \/ \E rng \in Noise : Reproduce(rng)
  \/ GrowOlder
  \/ Replace

Spec == Init /\ [][Next]_vars

\* the objective operations alone, with every intensity at every point, and
\* the moves get_direction depends on
NextObjective ==
  \/ \E p \in Points, i \in Intensities : AddObjective(p, i)
  \/ ResetObjective
  \/ \E p \in Points : BoundedMoveTo(p)

SpecObjective == Init /\ [][NextObjective]_vars

\* the offers of one tick: add_objective and reset_objective alone
NextOffer ==
  \/ \E p \in Points, i \in Intensities : AddObjective(p, i)
  \/ ResetObjective

SpecOffer == Init /\ [][NextOffer]_vars

\* a walk: a creature built by new and driven by move_to alone
WalkTo(pos) ==
  /\ Len(creature.movement_history) <= MaxWalk
  /\ IF Len(creature.movement_history) <= MaxTurns
       THEN TRUE
       ELSE pos = creature.movement_history[Len(creature.movement_history) - 1]
  /\ MoveTo(pos)

NextWalk == \E p \in Points : WalkTo(p)

SpecWalk == Init /\ [][NextWalk]_vars

\* points the world asks can_see and can_reach about
Probes == {<<0, 0>>, <<3, 4>>, <<4, 4>>, <<30, 40>>, <<51, 0>>, <<0, 53>>}

CanSee(pt) ==
  /\ returned' = Call("can_see", <<pt>>, <<can_see(creature, pt)>>)
  /\ UNCHANGED <<creature, offered, observed>>

CanReach(pt) ==
  /\ returned' = Call("can_reach", <<pt>>, <<can_reach(creature, pt)>>)
  /\ UNCHANGED <<creature, offered, observed>>

\* sensing: the two queries on the creatures of a lineage, wherever they move
NextSense ==
  \/ \E pt \in Probes : CanSee(pt)
  \/ \E pt \in Probes : CanReach(pt)
  \/ \E p \in Points : BoundedMoveTo(p)
  \/ EatFood
  \/ \E rng \in Noise : Reproduce(rng)
  \/ GrowOlder
  \/ Replace

SpecSense == Init /\ [][NextSense]_vars

\* the owner of the population ages a creature: it keeps what grow_older
\* returns in the creature's place, and drops the creature when that is None
AgeStep ==
  /\ returned' = Call("aged", <<>>, grow_older(creature))
  /\ IF grow_older(creature) = None
       THEN UNCHANGED <<creature, offered, observed>>
       ELSE /\ creature' = grow_older(creature)[1]
            /\ offered' = <<>>
            /\ observed' = FALSE

\* the creature was dropped: its lineage has ended
Ended == returned.op = "aged" /\ returned.value = None

\* a lineage that is aged again and again, with any in-place operations on
\* its creatures in between, until grow_older returns None
NextAging ==
  \/ ~Ended /\ AgeStep
  \/ \E p \in Points : ~Ended /\ BoundedMoveTo(p)
  \/ \E c \in Costs : ~Ended /\ ApplyEnergyCost(c)
  \/ ~Ended /\ EatFood
  \/ ~Ended /\ Sleep
  \/ \E s \in Stimuli : ~Ended /\ AddObjective(s[1], s[2])
  \/ ~Ended /\ ResetObjective

SpecAging == Init /\ [][NextAging]_vars /\ WF_vars(AgeStep)

-----------------------------------------------------------------------------
(* Claims *)

Last(seq) == seq[Len(seq)]

\* C1: Dead is sticky: in every reachable state the creature is Dead iff
\* apply_energy_cost has observed energy <= 0 on it at some earlier point, so
\* no later in-place operation makes is_alive() true again.
C1_DeadIffObserved == (~is_alive(creature)) <=> observed

\* C2: the displacement get_direction normalises is never the zero vector,
\* so get_direction() is a well-defined unit vector in every state reachable
\* by new, move_to, add_objective and reset_objective.
C2_DirectionDefined ==
  /\ disp(creature) # <<0, 0>>
  /\ get_direction(creature) # NaNVector

\* C3: movement_history is never empty and its last element is pos; right
\* after move_to(p), pos = p and the last history entry is p.
C3_HistoryEndsAtPos ==
  /\ Len(creature.movement_history) >= 1
  /\ Last(creature.movement_history) = creature.pos
  /\ returned.op = "move_to" =>
       /\ creature.pos = returned.args[1]
       /\ Last(creature.movement_history) = returned.args[1]

\* a creature that has just moved away from where it was
C3_Witness ==
  /\ returned.op = "move_to"
  /\ Len(creature.movement_history) >= 2
  /\ creature.pos # creature.movement_history[Len(creature.movement_history) - 1]

OfferedIntensities == {offered[k][2] : k \in 1..Len(offered)}

\* C4: the target is absent iff nothing has been offered since the last
\* reset (or construction); otherwise its intensity is the maximum of the
\* intensities offered since then; reset_objective clears the target
\* whatever its intensity.
C4_TargetIsMaxOffered ==
  /\ (creature.target = None) <=> (offered = <<>>)
  /\ offered # <<>> =>
       /\ creature.target[1][2] \in OfferedIntensities
       /\ \A i \in OfferedIntensities :
            discriminant(i) <= discriminant(creature.target[1][2])
  /\ returned.op = "reset_objective" => creature.target = None

\* a later, weaker offer was turned down
C4_Witness ==
  /\ Len(offered) >= 2
  /\ creature.target # None
  /\ creature.target[1] # Last(offered)
  /\ discriminant(Last(offered)[2]) < discriminant(creature.target[1][2])

\* the one-to-one rearrangements of 1..n
Perms(n) == {f \in [1..n -> 1..n] : \A i, j \in 1..n : f[i] = f[j] => i = j}

Reorder(seq, f) == [k \in 1..Len(seq) |-> seq[f[k]]]

\* the stimuli of seq offered in turn through add_objective
RECURSIVE OfferAll(_, _)
OfferAll(self, seq) ==
  IF seq = <<>>
    THEN self
    ELSE OfferAll(add_objective(self, Head(seq)[1], Head(seq)[2]), Tail(seq))

\* the target left when seq is offered after a reset
Surviving(seq) == OfferAll(reset_objective(creature), seq).target

\* the highest intensity in a non-empty sequence of stimuli
Top(seq) ==
  CHOOSE i \in {seq[k][2] : k \in 1..Len(seq)} :
    \A k \in 1..Len(seq) : discriminant(seq[k][2]) <= discriminant(i)

\* the first stimulus of seq that has the highest intensity
FirstTop(seq) ==
  seq[CHOOSE k \in 1..Len(seq) :
        /\ seq[k][2] = Top(seq)
        /\ \A j \in 1..(k - 1) : seq[j][2] # Top(seq)]

\* C5 as stated: every permutation of the offering order leaves the same
\* surviving target, point and intensity.
C5_OrderIndependent ==
  \A f \in Perms(Len(offered)) : Surviving(Reorder(offered, f)) = creature.target

\* C5, amended: every permutation of the offering order leaves a target of
\* the same intensity, the highest offered, and its point is the point of
\* the first offered stimulus of that intensity (so the same point too when
\* only one point was offered at the highest intensity).
C5_OrderIndependentUpToTies ==
  offered # <<>> =>
    /\ creature.target = Some(FirstTop(offered))
    /\ \A f \in Perms(Len(offered)) :
         LET perm == Reorder(offered, f)
         IN  /\ Surviving(perm) = Some(FirstTop(perm))
             /\ Surviving(perm)[1][2] = creature.target[1][2]
             /\ (\A k \in 1..Len(offered) :
                    offered[k][2] = Top(offered) => offered[k][1] = creature.target[1][1])
                  => Surviving(perm) = creature.target

\* the strongest stimulus came second: offering it first leaves the same target
C5_Witness ==
  /\ Len(offered) >= 2
  /\ discriminant(offered[1][2]) < discriminant(offered[2][2])
  /\ offered[1][1] # offered[2][1]
  /\ creature.target = Some(offered[2])
  /\ \A f \in Perms(Len(offered)) : Surviving(Reorder(offered, f)) = creature.target

\* the order the specification declares, greatest first
DeclaredOrder ==
  << "VitalAversion", "VitalCraving", "MajorAversion", "MajorCraving",
     "ModerateAversion", "ModerateCraving", "MinorAversion", "MinorCraving" >>

Place(i) == CHOOSE k \in 1..Len(DeclaredOrder) : DeclaredOrder[k] = i

StrictlyGreater(a, b) == Place(a) < Place(b)

\* C6: after two add_objective calls on a creature with no target, with
\* intensities A then B, the target is the second stimulus when B is
\* strictly greater than A in the declared order and the first otherwise
\* (A strictly greater, or A and B equal).
C6_TwoOffers ==
  Len(offered) = 2 =>
    creature.target =
      Some(IF StrictlyGreater(offered[2][2], offered[1][2])
             THEN offered[2]
             ELSE offered[1])

\* two offers of one intensity at different points: the first is kept
C6_Witness ==
  /\ Len(offered) = 2
  /\ returned.op = "add_objective"
  /\ offered[1][2] = offered[2][2]
  /\ offered[1][1] # offered[2][1]
  /\ creature.target = Some(offered[1])

AversionVariants ==
  {"MinorAversion", "ModerateAversion", "MajorAversion", "VitalAversion"}

\* the displacement the fallback chain of the specification chooses
ChainDisplacement ==
  LET history == creature.movement_history
  IN  IF creature.target # None /\ Sub(creature.target[1][1], creature.pos) # <<0, 0>>
        THEN IF creature.target[1][2] \in AversionVariants
               THEN Sub(creature.pos, creature.target[1][1])
               ELSE Sub(creature.target[1][1], creature.pos)
        ELSE IF Len(history) >= 2
               THEN Sub(creature.pos, history[Len(history) - 1])
               ELSE <<1, 0>>

\* C7: get_direction follows the fallback chain in order: the displacement
\* to a target away from pos (negated for an aversion), else pos minus the
\* second-to-last history entry, else the positive x-axis; a freshly
\* constructed creature gets the positive x-axis.
C7_FallbackChain ==
  /\ disp(creature) = ChainDisplacement
  /\ get_direction(creature) = new_normalize(ChainDisplacement)
  /\ returned.op = "new" => get_direction(creature) = UnitVector(1, 0)

\* an aversion target exactly at pos, after a move that changed position
C7_Witness ==
  /\ creature.target # None
  /\ creature.target[1][2] \in AversionVariants
  /\ creature.target[1][1] = creature.pos
  /\ Len(creature.movement_history) >= 2
  /\ creature.pos # creature.movement_history[Len(creature.movement_history) - 1]
  /\ get_direction(creature) # NaNVector

\* the number of move_to calls made on the creature
Moves == Len(creature.movement_history) - 1

\* C8: on a creature built by new and driven by move_to alone, every
\* move_to lowers energy by exactly 0.5 * speed^2 (0.5 at the default speed
\* 1.0) whatever the displacement, and is_alive() is false exactly when the
\* cumulative cost has brought energy to <= 0: the default creature is alive
\* after each of its first 199 moves and dead from the 200th on.
\* (energy in two-hundredths: 100.0 is 20000 and 0.5 is 100)
C8_WalkEnergy ==
  /\ get_speed(creature) = 10
  /\ creature.energy = 20000 - Moves * (creature.speed[1] * creature.speed[1])
  /\ creature.energy = 20000 - Moves * 100
  /\ is_alive(creature) <=> ~(creature.energy <= 0)
  /\ is_alive(creature) <=> Moves <= 199

\* the 200th move, one that changed position, has just killed the creature
C8_Witness ==
  /\ returned.op = "move_to"
  /\ Moves = 200
  /\ creature.pos # creature.movement_history[Len(creature.movement_history) - 1]
  /\ creature.energy = 0
  /\ ~is_alive(creature)

\* what Creature::new(pos) leaves in the fields other than the traits and age
Fresh(c, pos) ==
  /\ c.pos = pos
  /\ c.home_pos = pos
  /\ c.movement_history = <<pos>>
  /\ c.foods_eaten = 0
  /\ c.energy = 20000
  /\ c.target = None
  /\ c.state = "ACTIVE"

\* C9: reproduce returns an empty list when foods_eaten <= 1 and exactly
\* one child when foods_eaten > 1; the child is at the parent's home_pos
\* with history [home_pos], foods_eaten 0, age 0, energy 100, no target and
\* state Active, whatever the parent's energy, age, position, history,
\* target and state.
C9_Reproduce ==
  returned.op = "reproduce" =>
    /\ creature.foods_eaten <= 1 => returned.value = <<>>
    /\ creature.foods_eaten > 1 =>
         /\ Len(returned.value) = 1
         /\ Fresh(returned.value[1], creature.home_pos)
         /\ returned.value[1].age = 0

\* a Dead, aged, displaced parent with a target has just had a child
C9_Witness ==
  /\ returned.op = "reproduce"
  /\ Len(returned.value) = 1
  /\ creature.state = "DEAD"
  /\ creature.energy <= 0
  /\ creature.age > 0
  /\ creature.pos # creature.home_pos
  /\ creature.target # None

C11_AgeWithinLifeSpan ==
  /\ creature.age <= creature.life_span
  /\ \A k \in 1..Len(returned.value) :
       returned.op \in {"grow_older", "reproduce"} =>
         returned.value[k].age <= returned.value[k].life_span

\* C12: after sleep(), whatever the state and the energy before, the
\* creature is Asleep: is_active() is false and is_alive() is true.
C12_SleepIsUnconditional ==
  returned.op = "sleep" =>
    /\ creature.state = "ASLEEP"
    /\ ~is_active(creature)
    /\ is_alive(creature)

\* sleep() on a creature whose energy apply_energy_cost had seen at <= 0
C12_Witness ==
  /\ returned.op = "sleep"
  /\ observed
  /\ creature.energy <= 0
  /\ is_alive(creature)

\* a step that acts on the creature in place (every step but the owner's
\* replacing it by another value)
InPlaceStep == returned'.op # "new"

\* C13: a creature starts Active, and once is_active() is false no in-place
\* operation (move_to, apply_energy_cost, eat_food, sleep, add_objective,
\* reset_objective) makes it true again.
C13_NeverBackToActive ==
  /\ is_active(creature)
  /\ [][(InPlaceStep /\ ~is_active(creature)) => ~is_active(creature')]_vars

\* an Asleep creature with energy left has just paid an energy cost and is
\* still not Active
C13_Witness ==
  /\ returned.op = "apply_energy_cost"
  /\ creature.state = "ASLEEP"
  /\ creature.energy > 0

\* C14: movement_history is append-only and anchored at birth: its first
\* entry always equals home_pos, every move_to extends it by exactly one
\* entry and leaves the earlier entries as they were, and no other in-place
\* operation changes it.
C14_HistoryAppendOnly ==
  /\ creature.movement_history[1] = creature.home_pos
  /\ [][/\ creature'.movement_history[1] = creature'.home_pos
        /\ InPlaceStep =>
             IF returned'.op = "move_to"
               THEN /\ Len(creature'.movement_history) = Len(creature.movement_history) + 1
                    /\ SubSeq(creature'.movement_history, 1, Len(creature.movement_history))
                         = creature.movement_history
               ELSE creature'.movement_history = creature.movement_history]_vars

\* a creature with a target has just moved off its birth position
C14_Witness ==
  /\ returned.op = "move_to"
  /\ creature.movement_history = <<creature.home_pos, creature.pos>>
  /\ creature.pos # creature.home_pos
  /\ creature.target # None

\* the attributes fixed at birth
Traits(c) == <<c.home_pos, c.speed, c.sense_range, c.reach, c.life_span>>

\* C15: home_pos, speed, sense_range, reach and life_span are fixed for a
\* creature's life: every in-place operation leaves them unchanged, and
\* grow_older carries all five over to the creature it yields.
C15_TraitsFixed ==
  [][/\ InPlaceStep => Traits(creature') = Traits(creature)
     /\ (returned'.op = "grow_older" /\ returned'.value # None) =>
          Traits(returned'.value[1]) = Traits(creature)]_vars

\* an Asleep creature of a mutated speed, away from home, has grown older
C15_Witness ==
  /\ returned.op = "grow_older"
  /\ returned.value # None
  /\ returned.value[1].speed[1] = 9
  /\ creature.state = "ASLEEP"
  /\ creature.pos # creature.home_pos

\* C16: eat_food increments foods_eaten by exactly one and leaves energy,
\* state, pos, movement_history, target and age unchanged; eating never
\* restores energy and never revives a Dead creature.
C16_EatFoodFrame ==
  [][returned'.op = "eat_food" =>
       /\ creature'.foods_eaten = creature.foods_eaten + 1
       /\ creature'.energy = creature.energy
       /\ creature'.state = creature.state
       /\ creature'.pos = creature.pos
       /\ creature'.movement_history = creature.movement_history
       /\ creature'.target = creature.target
       /\ creature'.age = creature.age
       /\ ~is_alive(creature) => ~is_alive(creature')]_vars

\* a Dead creature has just eaten its second food
C16_Witness ==
  /\ returned.op = "eat_food"
  /\ creature.state = "DEAD"
  /\ creature.energy <= 0
  /\ creature.foods_eaten = 2

\* C17: when the creature is replaced again and again by what grow_older
\* returns, age goes up by exactly one at each step and the chain ends:
\* after finitely many steps grow_older returns no value, whatever other
\* operations are applied to the creatures in between.
C17_AgingChainEnds ==
  /\ [][(returned'.op = "aged" /\ returned'.value # None) =>
          /\ creature' = returned'.value[1]
          /\ creature'.age = creature.age + 1]_vars
  /\ <>Ended

\* the chain has ended on a Dead creature that had moved and eaten
C17_Witness ==
  /\ Ended
  /\ creature.age = creature.life_span + 1
  /\ creature.state = "DEAD"
  /\ creature.foods_eaten > 0
  /\ creature.pos # creature.home_pos

\* C18: move_to is not guarded by state: on a Dead or Asleep creature it
\* still sets pos, appends to movement_history and subtracts the motion
\* energy cost 0.5 * speed^2, and an Asleep creature whose energy reaches
\* <= 0 through move_to becomes Dead.
C18_MoveToUnguarded ==
  [][(returned'.op = "move_to" /\ creature.state \in {"DEAD", "ASLEEP"}) =>
       /\ creature'.pos = returned'.args[1]
       /\ creature'.movement_history = Append(creature.movement_history, returned'.args[1])
       /\ creature'.energy = creature.energy - creature.speed[1] * creature.speed[1]
       /\ IF creature'.energy <= 0
            THEN creature'.state = "DEAD"
            ELSE creature'.state = creature.state]_vars

\* a creature already at energy <= 0 has moved off its birth position and
\* paid for the move
C18_Witness ==
  /\ returned.op = "move_to"
  /\ creature.state = "DEAD"
  /\ creature.energy + creature.speed[1] * creature.speed[1] <= 0
  /\ creature.pos # creature.home_pos

\* C19: reproduce does not change the parent (foods_eaten, energy, age, pos,
\* movement_history, target, state), so a parent with foods_eaten > 1 yields
\* one child on every call, any number of times.
C19_ReproduceKeepsParent ==
  [][returned'.op = "reproduce" =>
       /\ creature'.foods_eaten = creature.foods_eaten
       /\ creature'.energy = creature.energy
       /\ creature'.age = creature.age
       /\ creature'.pos = creature.pos
       /\ creature'.movement_history = creature.movement_history
       /\ creature'.target = creature.target
       /\ creature'.state = creature.state
       /\ creature.foods_eaten > 1 => Len(returned'.value) = 1
       /\ (returned.op = "reproduce" /\ Len(returned.value) = 1) =>
            Len(returned'.value) = 1]_vars

\* an Asleep parent that has eaten twice has just had a child of another speed
C19_Witness ==
  /\ returned.op = "reproduce"
  /\ Len(returned.value) = 1
  /\ returned.value[1].speed[1] = 11
  /\ creature.speed[1] = 10
  /\ creature.foods_eaten = 2
  /\ creature.state = "ASLEEP"

\* the squared Euclidean distance between two points
DistanceSquared(a, b) == (a[1] - b[1]) * (a[1] - b[1]) + (a[2] - b[2]) * (a[2] - b[2])

WithinRange(pt, range) == DistanceSquared(pt, creature.pos) <= range * range

\* what C20 says of one state
SensingHolds ==
  /\ creature.reach <= creature.sense_range
  /\ \A pt \in Probes :
       /\ can_see(creature, pt) <=> WithinRange(pt, creature.sense_range)
       /\ can_reach(creature, pt) <=> WithinRange(pt, creature.reach)
       /\ can_reach(creature, pt) => can_see(creature, pt)
  /\ returned.op = "can_see" =>
       returned.value = <<WithinRange(returned.args[1], creature.sense_range)>>
  /\ returned.op = "can_reach" =>
       returned.value = <<WithinRange(returned.args[1], creature.reach)>>

\* C20: can_see(p) and can_reach(p) change nothing and are true iff the
\* Euclidean distance from pos to p is <= sense_range, respectively <= reach,
\* the boundary included; reach <= sense_range in every reachable creature,
\* so can_reach(p) implies can_see(p).
C20_Sensing ==
  /\ SensingHolds
  /\ [][/\ SensingHolds'
        /\ returned'.op \in {"can_see", "can_reach"} => creature' = creature]_vars

\* a point exactly at distance reach from a creature that has moved: in reach
C20_Witness ==
  /\ returned.op = "can_reach"
  /\ returned.value = <<TRUE>>
  /\ DistanceSquared(returned.args[1], creature.pos) = creature.reach * creature.reach
  /\ creature.pos # creature.home_pos

====
